---- MODULE Spec2Model ----
(***************************************************************************)
(* A model of parts of scp-cs/wikijump:                                    *)
(*   - ftml's list rule (parsing/rule/impls/list.rs) and the depth-list    *)
(*     nesting it calls;                                                   *)
(*   - ftml's text renderer (render/text/elements.rs);                     *)
(*   - the ftml-http routes (ftml-http/src/routes.rs);                     *)
(*   - deepwell's rate-limit middleware (web/ratelimit.rs);                *)
(*   - deepwell's page lifecycle as exercised by test/page.rs.             *)
(* Each part has its own specification (SpecDepth, SpecList, ...); the     *)
(* variables of the other parts stay at their idle values.                 *)
(***************************************************************************)
EXTENDS Integers, Sequences, FiniteSets, TLC

VARIABLES
    \* depth-list nesting (process_depths)
    dl_in, dl_out, dl_pc,
    \* list rule (parse_list); entry is the cursor the rule was entered at
    tokens, entry, pos, bullet_token, depths, exceptions, l_pc, l_result,
    \* text renderer: the tree, the host's site URL, the TextContext, the
    \* rendering steps still to do, the render call (1 or 2) and the output
    \* of the first call
    r_doc, r_site, ctx, r_todo, r_run, r_first,
    \* get_full_url called on its own
    u_site, u_url, u_out, u_pc,
    \* ftml-http: what the include callback answers (h_fetch, h_missing),
    \* the number of requests handled, the first request handled with its
    \* response, and the last one
    h_fetch, h_missing, h_handled, h_mem, h_last,
    \* rate-limit middleware: the quota per minute, the number of
    \* non-exempt requests each address sent in the current minute, and the
    \* last request handled with its outcome
    rl_times, rl_requests, rl_last,
    \* pages: the page table (page_id -> slug, deleted, revisions) and the
    \* last request with its answer
    pages, p_last,
    \* service errors: the failure raised inside a service method, the Result
    \* the method returns, the response after to_api, and the stage reached
    e_raised, e_result, e_response, e_pc,
    \* files: the file table (file_id is the position of the row), the blobs
    \* stored, the file revisions, and the last call with its outcome
    files, blobs, file_revisions, f_last,
    \* the open database transactions, each running one create
    f_txn,
    \* The last request met by the body-size filter of a route, with its outcome.
    b_last

depthVars == <<dl_in, dl_out, dl_pc>>
listVars == <<tokens, entry, pos, bullet_token, depths, exceptions, l_pc, l_result>>
renderVars == <<r_doc, r_site, ctx, r_todo, r_run, r_first>>
urlVars == <<u_site, u_url, u_out, u_pc>>
httpVars == <<h_fetch, h_missing, h_handled, h_mem, h_last>>
rateVars == <<rl_times, rl_requests, rl_last>>
pageVars == <<pages, p_last>>
errVars == <<e_raised, e_result, e_response, e_pc>>
fileVars == <<files, blobs, file_revisions, f_last, f_txn>>
bodyVars == <<b_last>>
vars == <<depthVars, listVars, renderVars, urlVars, httpVars, rateVars, pageVars, errVars, fileVars, bodyVars>>

\* What the actions of one part leave alone: the variables of the others.
notDepth == <<listVars, renderVars, urlVars, httpVars, rateVars, pageVars, errVars, fileVars, bodyVars>>
notList == <<depthVars, renderVars, urlVars, httpVars, rateVars, pageVars, errVars, fileVars, bodyVars>>
notRender == <<depthVars, listVars, urlVars, httpVars, rateVars, pageVars, errVars, fileVars, bodyVars>>
notUrl == <<depthVars, listVars, renderVars, httpVars, rateVars, pageVars, errVars, fileVars, bodyVars>>
notHttp == <<depthVars, listVars, renderVars, urlVars, rateVars, pageVars, errVars, fileVars, bodyVars>>
notRate == <<depthVars, listVars, renderVars, urlVars, httpVars, pageVars, errVars, fileVars, bodyVars>>
notPage == <<depthVars, listVars, renderVars, urlVars, httpVars, rateVars, errVars, fileVars, bodyVars>>
notErr == <<depthVars, listVars, renderVars, urlVars, httpVars, rateVars, pageVars, fileVars, bodyVars>>
notFile == <<depthVars, listVars, renderVars, urlVars, httpVars, rateVars, pageVars, errVars, bodyVars>>
notBody == <<depthVars, listVars, renderVars, urlVars, httpVars, rateVars, pageVars, errVars, fileVars>>

\* ------------------------------------------------------------------------
\* Generic helpers
\* ------------------------------------------------------------------------

\* All sequences over S of length at most n.
SeqsUpTo(S, n) == UNION {[1..k -> S] : k \in 0..n}

Last(s) == s[Len(s)]

Front(s) == SubSeq(s, 1, Len(s) - 1)

\* ------------------------------------------------------------------------
\* Depth-list nesting: process_depths (crate::parsing::depth), called from
\* parse_list. A DepthList is a sequence of DepthItem::Item(payload) and
\* DepthItem::List(DepthList).
\* ------------------------------------------------------------------------

MaxItems == 4
MaxDepth == 4

DItem(p) == [kind |-> "Item", value |-> p, list |-> <<>>]

DList(l) == [kind |-> "List", value |-> <<>>, list |-> l]

\* The bottom frame of the stack: below every depth.
RootFrame == [depth |-> -1, items |-> <<>>]

\* Pop the open frames whose recorded depth is >= d; a popped frame that
\* gathered children becomes a List item of the frame below it.
RECURSIVE CloseFrames(_, _)
CloseFrames(stack, d) ==
    IF Len(stack) > 1 /\ Last(stack).depth >= d
    THEN LET top == Last(stack)
             rest == Front(stack)
             n == Len(rest)
         IN CloseFrames(
                IF top.items = <<>>
                THEN rest
                ELSE [rest EXCEPT ![n].items = Append(@, DList(top.items))],
                d)
    ELSE stack

\* A mutant of PushEntry: one frame per unit of depth (nesting by magnitude).
RECURSIVE OpenLevels(_, _)
OpenLevels(stack, d) ==
    IF Last(stack).depth + 1 < d
    THEN OpenLevels(Append(stack, [depth |-> Last(stack).depth + 1, items |-> <<>>]), d)
    ELSE stack

PushEntryByMagnitude(stack, d, p) ==
    LET s == OpenLevels(CloseFrames(stack, d), d)
        n == Len(s)
    IN Append([s EXCEPT ![n].items = Append(@, DItem(p))],
              [depth |-> d, items |-> <<>>])

\* Attach the entry to the new stack top, then push a fresh frame for it.
PushEntry(stack, d, p) ==
    LET s == CloseFrames(stack, d)
        n == Len(s)
    IN Append([s EXCEPT ![n].items = Append(@, DItem(p))],
              [depth |-> d, items |-> <<>>])

RECURSIVE PushAll(_, _)
PushAll(stack, items) ==
    IF items = <<>>
    THEN stack
    ELSE PushAll(PushEntry(stack, items[1][1], items[1][2]), Tail(items))

\* items: a sequence of <<depth, payload>>.
ProcessDepths(items) ==
    CloseFrames(PushAll(<<RootFrame>>, items), 0)[1].items

Payloads == <<"a", "b", "c", "d", "e", "f">>

DepthInputs ==
    {[i \in 1..Len(ds) |-> <<ds[i], Payloads[i]>>] : ds \in SeqsUpTo(0..MaxDepth, MaxItems)}

DepthsOf(items) == [i \in 1..Len(items) |-> items[i][1]]

\* The rank of each depth among the depths of the sequence: two sequences
\* compare the same way pairwise exactly when their ranks are equal.
RankOf(ds) == [i \in 1..Len(ds) |-> Cardinality({ds[j] : j \in {k \in 1..Len(ds) : ds[k] < ds[i]}})]

SameOrder(ds, es) ==
    /\ Len(ds) = Len(es)
    /\ \A i, j \in 1..Len(ds) : (ds[i] < ds[j]) <=> (es[i] < es[j])

WithDepths(items, ds) == [i \in 1..Len(items) |-> <<ds[i], items[i][2]>>]

IdleDepth == dl_in = <<>> /\ dl_out = <<>> /\ dl_pc = "idle"

DepthStart == dl_in \in DepthInputs /\ dl_out = <<>> /\ dl_pc = "call"

DepthCall ==
    /\ dl_pc = "call"
    /\ dl_out' = ProcessDepths(dl_in)
    /\ dl_pc' = "done"
    /\ UNCHANGED <<dl_in, notDepth>>

\* ------------------------------------------------------------------------
\* The list rule: parse_list
\* ------------------------------------------------------------------------

MaxLines == 3
MaxRaw == 4

IdleList ==
    /\ tokens = <<>>
    /\ entry = 0
    /\ pos = 0
    /\ bullet_token = "BulletItem"
    /\ depths = <<>>
    /\ exceptions = <<>>
    /\ l_pc = "idle"
    /\ l_result = [status |-> "None"]

\* An extracted token: its kind and its slice of the source (characters).
Tok(t, sl) == [token |-> t, slice |-> sl]

Spaces(n) == [i \in 1..n |-> " "]

InputStart == Tok("InputStart", <<>>)
InputEnd == Tok("InputEnd", <<>>)
LineBreak == Tok("LineBreak", <<"\n">>)
ParagraphBreak == Tok("ParagraphBreak", <<"\n", "\n">>)
Whitespace(n) == Tok("Whitespace", Spaces(n))
BulletItem == Tok("BulletItem", <<"*">>)
NumberedItem == Tok("NumberedItem", <<"#">>)
Identifier(c) == Tok("Identifier", <<c>>)
\* The opening of a block that is never closed: its rule fails.
LeftBlock == Tok("LeftBlock", <<"[", "[">>)

\* Elements of the syntax tree built here.
TextElement(sl) == [tag |-> "Text", text |-> sl]

ListElement(ltype, items) == [tag |-> "List", ltype |-> ltype, items |-> items]

ItemElements(elements) == [kind |-> "Elements", elements |-> elements]

ItemSubList(list) == [kind |-> "SubList", list |-> list]

ParseWarning(kind, at) == [kind |-> kind, at |-> at]

\* get_list_type: the list type of the rule's marker token.
get_list_type(token) ==
    CASE token = "BulletItem" -> "Bullet"
      [] token = "NumberedItem" -> "Numbered"
      [] OTHER -> "None"

\* Parser::step: move to the next token; Err(EndOfInput) with none left.
CanStep(toks, p) == p < Len(toks)

\* consume on one inline token: the token as literal text; a token whose
\* construct fails also leaves a RuleFailed warning.
ConsumeElement(toks, p) == TextElement(toks[p].slice)

ConsumeWarnings(toks, p) ==
    IF toks[p].token = "LeftBlock" THEN <<ParseWarning("RuleFailed", p)>> ELSE <<>>

\* collect_consume from cursor p with close conditions LineBreak and
\* InputEnd and the invalid condition ParagraphBreak. A closing LineBreak
\* is stepped over; InputEnd is the last token and stays current.
RECURSIVE collect_consume(_, _, _, _)
collect_consume(toks, p, elements, warnings) ==
    CASE toks[p].token = "LineBreak" ->
            [ok |-> TRUE, pos |-> p + 1, elements |-> elements, warnings |-> warnings]
      [] toks[p].token = "InputEnd" ->
            [ok |-> TRUE, pos |-> p, elements |-> elements, warnings |-> warnings]
      [] toks[p].token = "ParagraphBreak" ->
            [ok |-> FALSE, pos |-> p, elements |-> elements, warnings |-> warnings]
      [] OTHER ->
            collect_consume(toks, p + 1,
                            Append(elements, ConsumeElement(toks, p)),
                            warnings \o ConsumeWarnings(toks, p))

\* build_list_element
RECURSIVE build_list_element(_, _)
build_list_element(list, ltype) ==
    ListElement(ltype,
        [i \in 1..Len(list) |->
            IF list[i].kind = "Item"
            THEN ItemElements(list[i].value)
            ELSE ItemSubList(build_list_element(list[i].list, ltype))])

\* The depth read at the head of a loop iteration (lines 89-104): the
\* length of a leading whitespace slice, 0 at the marker, -1 to bail.
DepthOf(toks, p, bullet) ==
    CASE toks[p].token = "Whitespace" -> Len(toks[p].slice)
      [] toks[p].token = bullet -> 0
      [] OTHER -> -1

\* A mutant of Iteration without the test of lines 113-116: the whitespace
\* after the marker is neither required nor stepped over.
IterationNoSeparator(toks, p, bullet) ==
    LET depth == DepthOf(toks, p, bullet)
        Stop(kind, q) ==
            [kind |-> kind, pos |-> q, depth |-> 0, elements |-> <<>>, warnings |-> <<>>]
    IN
    IF depth = -1 THEN Stop("break", p)
    ELSE IF toks[p].token = "Whitespace" /\ ~CanStep(toks, p) THEN Stop("eof", p)
    ELSE LET p1 == IF toks[p].token = "Whitespace" THEN p + 1 ELSE p IN
    IF toks[p1].token # bullet THEN Stop("break", p1)
    ELSE IF ~CanStep(toks, p1) THEN Stop("eof", p1)
    ELSE LET c == collect_consume(toks, p1 + 1, <<>>, <<>>) IN
    IF ~c.ok THEN Stop("failed", c.pos)
    ELSE [kind |-> "line", pos |-> c.pos, depth |-> depth,
          elements |-> c.elements, warnings |-> c.warnings]

\* One iteration of the loop of parse_list from cursor p, as what it does:
\*   "break" with the cursor where the iteration left it,
\*   "eof" when a step finds no token left,
\*   "failed" when collect_consume fails,
\*   "line" with the depth, the elements and the warnings of the line.
Iteration(toks, p, bullet) ==
    LET depth == DepthOf(toks, p, bullet)
        Stop(kind, q) ==
            [kind |-> kind, pos |-> q, depth |-> 0, elements |-> <<>>, warnings |-> <<>>]
    IN
    IF depth = -1 THEN Stop("break", p)
    ELSE IF toks[p].token = "Whitespace" /\ ~CanStep(toks, p) THEN Stop("eof", p)
    ELSE LET p1 == IF toks[p].token = "Whitespace" THEN p + 1 ELSE p IN
    IF toks[p1].token # bullet THEN Stop("break", p1)
    ELSE IF ~CanStep(toks, p1) THEN Stop("eof", p1)
    ELSE LET p2 == p1 + 1 IN
    IF toks[p2].token # "Whitespace" THEN Stop("break", p2)
    ELSE IF ~CanStep(toks, p2) THEN Stop("eof", p2)
    ELSE LET c == collect_consume(toks, p2 + 1, <<>>, <<>>) IN
    IF ~c.ok THEN Stop("failed", c.pos)
    ELSE [kind |-> "line", pos |-> c.pos, depth |-> depth,
          elements |-> c.elements, warnings |-> c.warnings]

ResultOk(element, warnings) ==
    [status |-> "Ok", element |-> element, exceptions |-> warnings]

ResultErr(kind, at) == [status |-> "Err", warning |-> ParseWarning(kind, at)]

\* Lines 66-82: the starting token is asserted, then stepped over.
ListEnter ==
    /\ l_pc = "start"
    /\ IF tokens[pos].token \notin {"InputStart", "LineBreak"}
       THEN /\ l_result' = [status |-> "Panic"]
            /\ l_pc' = "done"
            /\ UNCHANGED pos
       ELSE IF ~CanStep(tokens, pos)
       THEN /\ l_result' = ResultErr("EndOfInput", pos)
            /\ l_pc' = "done"
            /\ UNCHANGED pos
       ELSE /\ pos' = pos + 1
            /\ l_pc' = "loop"
            /\ UNCHANGED l_result
    /\ UNCHANGED <<tokens, entry, bullet_token, depths, exceptions>>
    /\ UNCHANGED notList

\* Lines 88-134: an iteration that matches a list line and appends it.
ListLine ==
    /\ l_pc = "loop"
    /\ LET it == Iteration(tokens, pos, bullet_token) IN
        /\ it.kind = "line"
        /\ pos' = it.pos
        /\ exceptions' = exceptions \o it.warnings
        /\ depths' = Append(depths, <<it.depth, it.elements>>)
    /\ UNCHANGED <<tokens, entry, bullet_token, l_pc, l_result>>
    /\ UNCHANGED notList

\* Lines 103, 108, 114: an iteration that leaves the loop.
ListBreak ==
    /\ l_pc = "loop"
    /\ LET it == Iteration(tokens, pos, bullet_token) IN
        /\ it.kind = "break"
        /\ pos' = it.pos
    /\ l_pc' = "after"
    /\ UNCHANGED <<tokens, entry, bullet_token, depths, exceptions, l_result>>
    /\ UNCHANGED notList

\* The ? of lines 93, 110, 116 and 129: the error is returned at once.
ListError ==
    /\ l_pc = "loop"
    /\ LET it == Iteration(tokens, pos, bullet_token) IN
        /\ it.kind \in {"eof", "failed"}
        /\ pos' = it.pos
        /\ l_result' = ResultErr(IF it.kind = "eof" THEN "EndOfInput" ELSE "RuleFailed",
                                 it.pos)
    /\ l_pc' = "done"
    /\ UNCHANGED <<tokens, entry, bullet_token, depths, exceptions>>
    /\ UNCHANGED notList

\* Lines 136-145 with a mutant that builds the list of the other type.
FinishResultSwappedType(ds, warnings, bullet, at) ==
    IF ds = <<>>
    THEN ResultErr("RuleFailed", at)
    ELSE ResultOk(build_list_element(ProcessDepths(ds),
                      IF get_list_type(bullet) = "Bullet" THEN "Numbered" ELSE "Bullet"),
                  warnings)

\* A mutant that builds an empty list from an empty buffer.
FinishResultNoCheck(ds, warnings, bullet, at) ==
    ResultOk(build_list_element(ProcessDepths(ds), get_list_type(bullet)), warnings)

\* A mutant that returns the element without the warnings gathered.
FinishResultNoWarnings(ds, warnings, bullet, at) ==
    IF ds = <<>>
    THEN ResultErr("RuleFailed", at)
    ELSE ResultOk(build_list_element(ProcessDepths(ds), get_list_type(bullet)), <<>>)

FinishResult(ds, warnings, bullet, at) ==
    IF ds = <<>>
    THEN ResultErr("RuleFailed", at)
    ELSE ResultOk(build_list_element(ProcessDepths(ds), get_list_type(bullet)), warnings)

ListFinish ==
    /\ l_pc = "after"
    /\ l_result' = FinishResult(depths, exceptions, bullet_token, pos)
    /\ l_pc' = "done"
    /\ UNCHANGED <<tokens, entry, pos, bullet_token, depths, exceptions>>
    /\ UNCHANGED notList

\* Token streams: every stream starts with InputStart and ends with InputEnd.
Stream(middle) == <<InputStart>> \o middle \o <<InputEnd>>

RawAlphabet ==
    {LineBreak, ParagraphBreak, Whitespace(1), Whitespace(2), BulletItem,
     NumberedItem, Identifier("a"), LeftBlock}

RawStreams == {Stream(m) : m \in SeqsUpTo(RawAlphabet, MaxRaw)}

\* Streams made of lines. A line is <<indent, kind>>:
\*   "bullet"  indent, "*", " ", text
\*   "nosep"   indent, "*", text            (no whitespace after the marker)
\*   "text"    indent, text                 (no marker)
\*   "warn"    a bullet line whose content holds a failing construct
\*   "para"    a bullet line ended by a paragraph break
LineShapes == {0, 2} \X {"bullet", "nosep", "text", "warn", "para"}

LineTokens(shape, i, last) ==
    LET indent == IF shape[1] > 0 THEN <<Whitespace(shape[1])>> ELSE <<>>
        text == <<Identifier(Payloads[i])>>
        body == CASE shape[2] = "nosep" -> <<BulletItem>> \o text
                  [] shape[2] = "text" -> text
                  [] shape[2] = "warn" -> <<BulletItem, Whitespace(1)>> \o text \o <<LeftBlock>>
                  [] OTHER -> <<BulletItem, Whitespace(1)>> \o text
        end == CASE shape[2] = "para" -> <<ParagraphBreak>>
                 [] last -> <<>>
                 [] OTHER -> <<LineBreak>>
    IN indent \o body \o end

RECURSIVE LinesTokens(_, _)
LinesTokens(shapes, i) ==
    IF i > Len(shapes)
    THEN <<>>
    ELSE LineTokens(shapes[i], i, i = Len(shapes)) \o LinesTokens(shapes, i + 1)

LineStreams == {Stream(LinesTokens(sh, 1)) : sh \in SeqsUpTo(LineShapes, MaxLines)}

\* The tokens of "* a\n* b\n  * c\n* d".
DocExample ==
    Stream(LinesTokens(<<<<0, "bullet">>, <<0, "bullet">>, <<2, "bullet">>, <<0, "bullet">>>>, 1))

\* The rule is entered only at the start of the input or at a line break.
EntryPositions(toks) ==
    {p \in 1..Len(toks) : toks[p].token \in {"InputStart", "LineBreak"}}

ListStart ==
    /\ tokens \in RawStreams \cup LineStreams \cup {DocExample}
    /\ entry \in EntryPositions(tokens)
    /\ pos = entry
    /\ bullet_token \in {"BulletItem", "NumberedItem"}
    /\ depths = <<>>
    /\ exceptions = <<>>
    /\ l_pc = "start"
    /\ l_result = [status |-> "None"]

\* ------------------------------------------------------------------------
\* URL resolution: get_full_url
\* ------------------------------------------------------------------------

MaxUrlLen == 3

\* Strings are sequences of characters; "http://" stands for a scheme.
StartsWith(str, c) == Len(str) > 0 /\ str[1] = c

EndsWith(str, c) == Len(str) > 0 /\ str[Len(str)] = c

\* crate::url::is_url: the string starts with a URL scheme.
is_url(url) == StartsWith(url, "http://")

\* A mutant of get_full_url that skips the removal of the duplicate slash.
get_full_url_no_pop(site_url, url) ==
    IF is_url(url)
    THEN url
    ELSE LET added == IF ~EndsWith(site_url, "/") /\ ~StartsWith(url, "/")
                      THEN Append(site_url, "/")
                      ELSE site_url
         IN added \o url

\* get_full_url, site_url being the host's answer to get_url(site).
get_full_url(site_url, url) ==
    IF is_url(url)
    THEN url
    ELSE LET added == IF ~EndsWith(site_url, "/") /\ ~StartsWith(url, "/")
                      THEN Append(site_url, "/")
                      ELSE site_url
             popped == IF EndsWith(added, "/") /\ StartsWith(url, "/")
                       THEN Front(added)
                       ELSE added
         IN popped \o url

IdleUrl == u_site = <<>> /\ u_url = <<>> /\ u_out = <<>> /\ u_pc = "idle"

UrlStart ==
    /\ u_site \in SeqsUpTo({"s", "/"}, MaxUrlLen)
    /\ u_url \in SeqsUpTo({"p", "/", "http://"}, MaxUrlLen)
    /\ u_out = <<>>
    /\ u_pc = "call"

UrlCall ==
    /\ u_pc = "call"
    /\ u_out' = get_full_url(u_site, u_url)
    /\ u_pc' = "done"
    /\ UNCHANGED <<u_site, u_url, notUrl>>

\* ------------------------------------------------------------------------
\* The text renderer: render_element on a TextContext
\* ------------------------------------------------------------------------

MaxElements == 2

\* TextContext: the output buffer, the prefix stack, the list depth and the
\* next index of a numbered list at each depth.
NewContext == [buffer |-> <<>>, prefixes |-> <<>>, list_depth |-> 0, list_index |-> <<1>>]

push_str(c, str) == [c EXCEPT !.buffer = @ \o str]

RECURSIVE Concat(_)
Concat(strs) == IF strs = <<>> THEN <<>> ELSE strs[1] \o Concat(Tail(strs))

\* TextContext::add_newline: a newline, then every prefix of the stack.
add_newline(c) == push_str(c, <<"\n">> \o Concat(c.prefixes))

RECURSIVE add_newlines(_, _)
add_newlines(c, n) == IF n = 0 THEN c ELSE add_newlines(add_newline(c), n - 1)

push_prefix(c, prefix) == [c EXCEPT !.prefixes = Append(@, prefix)]

pop_prefix(c) == [c EXCEPT !.prefixes = Front(@)]

incr_list_depth(c) ==
    [c EXCEPT !.list_depth = @ + 1, !.list_index = Append(@, 1)]

decr_list_depth(c) ==
    [c EXCEPT !.list_depth = @ - 1, !.list_index = Front(@)]

\* TextContext::next_list_index: the index at the current depth, which is
\* then incremented.
list_index_of(c) == c.list_index[c.list_depth + 1]

next_list_index(c) == [c EXCEPT !.list_index[c.list_depth + 1] = @ + 1]

\* Elements of the tree (Element::Text and Element::List are above).
Container(ctype, elements) ==
    [tag |-> "Container", ctype |-> ctype, elements |-> elements]

Module == [tag |-> "Module"]

Anchor(elements, href) == [tag |-> "Anchor", elements |-> elements, href |-> href]

Link(url, label) == [tag |-> "Link", url |-> url, label |-> label]

RadioButton(checked) == [tag |-> "RadioButton", checked |-> checked]

CheckBox(checked) == [tag |-> "CheckBox", checked |-> checked]

Collapsible(elements, show_text, hide_text, show_top, show_bottom) ==
    [tag |-> "Collapsible", elements |-> elements, show_text |-> show_text,
     hide_text |-> hide_text, show_top |-> show_top, show_bottom |-> show_bottom]

Color(elements) == [tag |-> "Color", elements |-> elements]

Code(contents, language) == [tag |-> "Code", contents |-> contents, language |-> language]

Html(contents) == [tag |-> "Html", contents |-> contents]

Iframe(url) == [tag |-> "Iframe", url |-> url]

LineBreakElement == [tag |-> "LineBreak"]

LineBreaks(amount) == [tag |-> "LineBreaks", amount |-> amount]

HorizontalRule == [tag |-> "HorizontalRule"]

\* Option<T>: None is the empty sequence, Some(v) is <<v>>.
None == <<>>

Some(v) == <<v>>

\* The steps render_element still has to do, first on top.
ElementTask(e) == [op |-> "element", e |-> e]

ElementTasks(elements) == [i \in 1..Len(elements) |-> ElementTask(elements[i])]

TopIs(op) == r_todo # <<>> /\ r_todo[1].op = op

TopElementIs(tags) == TopIs("element") /\ r_todo[1].e.tag \in tags

\* HeadingLevel::prefix
HeaderPrefix(level) == [i \in 1..level |-> "+"] \o <<" ">>

\* Lines 44-49: (add_newlines, prefix) of a container type.
ContainerNewlines(ctype) ==
    ctype \in {"Div", "Paragraph", "Blockquote", "Header1", "Header2"}

ContainerPrefix(ctype) ==
    CASE ctype = "Blockquote" -> Some(<<" ", " ", " ", " ">>)
      [] ctype = "Header1" -> Some(HeaderPrefix(1))
      [] ctype = "Header2" -> Some(HeaderPrefix(2))
      [] OTHER -> None

\* Lines 41-61: a container is opened and its elements are rendered next.
RenderContainer ==
    /\ TopElementIs({"Container"})
    /\ LET e == r_todo[1].e
           prefix == ContainerPrefix(e.ctype)
       IN IF ContainerNewlines(e.ctype)
          THEN /\ ctx' = add_newline(IF prefix # None THEN push_prefix(ctx, prefix[1]) ELSE ctx)
               /\ r_todo' = ElementTasks(e.elements)
                               \o <<[op |-> "container_close", prefix |-> prefix]>>
                               \o Tail(r_todo)
          ELSE /\ ctx' = ctx
               /\ r_todo' = ElementTasks(e.elements) \o Tail(r_todo)
    /\ UNCHANGED <<r_doc, r_site, r_run, r_first, notRender>>

\* Lines 63-70: the prefix is popped and the closing newline added.
ContainerClose ==
    /\ TopIs("container_close")
    /\ ctx' = add_newline(IF r_todo[1].prefix # None THEN pop_prefix(ctx) ELSE ctx)
    /\ r_todo' = Tail(r_todo)
    /\ UNCHANGED <<r_doc, r_site, r_run, r_first, notRender>>

\* The host's answers: render_module and get_message.
ModuleText == <<"M">>

get_message(key) == IF key = "collapsible-open" THEN <<"o">> ELSE <<"h">>

\* The three backquotes that open and close a fenced block.
Fence == <<"'", "'", "'">>

\* The text of an element that only appends to the buffer.
LeafText(e, site_url) ==
    CASE e.tag = "Module" -> ModuleText
      [] e.tag \in {"Text", "Raw", "Email"} -> e.text
      [] e.tag = "Link" ->
            e.label \o <<" ", "[">> \o get_full_url(site_url, e.url) \o <<"]">>
      [] e.tag = "RadioButton" -> <<"(", IF e.checked THEN "*" ELSE " ", ")">>
      [] e.tag = "CheckBox" -> <<"[", IF e.checked THEN "X" ELSE " ", "]">>
      [] e.tag = "Code" ->
            Fence \o (IF e.language # None THEN e.language[1] ELSE <<>>)
                \o <<"\n">> \o e.contents \o <<"\n">> \o Fence
      [] e.tag = "Html" ->
            Fence \o <<"h", "t", "m", "l", "\n">> \o e.contents
                \o <<"\n">> \o Fence
      [] e.tag = "Iframe" ->
            <<"i", "f", "r", "a", "m", "e", ":", " ">> \o e.url

LeafTags ==
    {"Module", "Text", "Raw", "Email", "Link", "RadioButton", "CheckBox", "Code",
     "Html", "Iframe"}

\* Lines 72-78, 91-96, 128-133, 174-185.
RenderLeaf ==
    /\ TopElementIs(LeafTags)
    /\ ctx' = push_str(ctx, LeafText(r_todo[1].e, r_site))
    /\ r_todo' = Tail(r_todo)
    /\ UNCHANGED <<r_doc, r_site, r_run, r_first, notRender>>

\* Lines 79-84: the elements of the anchor are rendered first.
RenderAnchor ==
    /\ TopElementIs({"Anchor"})
    /\ r_todo' = ElementTasks(r_todo[1].e.elements)
                    \o <<[op |-> "anchor_close", href |-> r_todo[1].e.href]>>
                    \o Tail(r_todo)
    /\ UNCHANGED <<r_doc, r_site, ctx, r_run, r_first, notRender>>

\* Lines 86-89: the resolved href in brackets, if there is one.
AnchorClose ==
    /\ TopIs("anchor_close")
    /\ ctx' = IF r_todo[1].href # None
              THEN push_str(ctx, <<" ", "[">> \o get_full_url(r_site, r_todo[1].href[1])
                                    \o <<"]">>)
              ELSE ctx
    /\ r_todo' = Tail(r_todo)
    /\ UNCHANGED <<r_doc, r_site, r_run, r_first, notRender>>

\* Lines 97-98: the items of a list, in order.
RenderList ==
    /\ TopElementIs({"List"})
    /\ LET e == r_todo[1].e IN
        r_todo' = [i \in 1..Len(e.items) |->
                      [op |-> "item", ltype |-> e.ltype, item |-> e.items[i]]]
                  \o Tail(r_todo)
    /\ UNCHANGED <<r_doc, r_site, ctx, r_run, r_first, notRender>>

\* The decimal digits of a number, as str_write!("{}", index) writes it.
Digit(n) == <<"0", "1", "2", "3", "4", "5", "6", "7", "8", "9">>[n + 1]

RECURSIVE ToDecimal(_)
ToDecimal(n) ==
    IF n < 10 THEN <<Digit(n)>> ELSE Append(ToDecimal(n \div 10), Digit(n % 10))

\* Lines 107-114 with a marker that counts the render calls of the process
\* (a mutant: state shared between render calls).
ListMarkerShared(c, ltype) ==
    CASE ltype = "Bullet" -> push_str(c, <<"*", " ">>)
      [] ltype = "Numbered" ->
            push_str(next_list_index(c), ToDecimal(list_index_of(c) + r_run - 1) \o <<".", " ">>)
      [] OTHER -> c

\* Lines 107-114: the marker of an item.
ListMarker(c, ltype) ==
    CASE ltype = "Bullet" -> push_str(c, <<"*", " ">>)
      [] ltype = "Numbered" ->
            push_str(next_list_index(c), ToDecimal(list_index_of(c)) \o <<".", " ">>)
      [] OTHER -> c

\* Lines 100-118: the indentation and the marker, then the item's elements.
RenderItemElements ==
    /\ TopIs("item")
    /\ r_todo[1].item.kind = "Elements"
    /\ ctx' = ListMarker(push_str(ctx, Spaces(ctx.list_depth)), r_todo[1].ltype)
    /\ r_todo' = ElementTasks(r_todo[1].item.elements) \o Tail(r_todo)
    /\ UNCHANGED <<r_doc, r_site, r_run, r_first, notRender>>

\* Lines 119-122: the depth is incremented and the sub-list rendered.
RenderItemSubList ==
    /\ TopIs("item")
    /\ r_todo[1].item.kind = "SubList"
    /\ ctx' = incr_list_depth(ctx)
    /\ r_todo' = <<ElementTask(r_todo[1].item.list), [op |-> "sublist_close"]>>
                    \o Tail(r_todo)
    /\ UNCHANGED <<r_doc, r_site, r_run, r_first, notRender>>

\* A mutant of SubListClose: the depth is not decremented.
SubListCloseNoDecrement ==
    /\ TopIs("sublist_close")
    /\ r_todo' = Tail(r_todo)
    /\ UNCHANGED <<r_doc, r_site, ctx, r_run, r_first, notRender>>

\* Line 123
SubListClose ==
    /\ TopIs("sublist_close")
    /\ ctx' = decr_list_depth(ctx)
    /\ r_todo' = Tail(r_todo)
    /\ UNCHANGED <<r_doc, r_site, r_run, r_first, notRender>>

\* Lines 142-156: the text given, or the message of the locale.
CollapsibleText(text, key) == IF text # None THEN text[1] ELSE get_message(key)

\* Lines 158-166: the top of the collapsible, then its elements.
RenderCollapsible ==
    /\ TopElementIs({"Collapsible"})
    /\ LET e == r_todo[1].e
           show_text == CollapsibleText(e.show_text, "collapsible-open")
           hide_text == CollapsibleText(e.hide_text, "collapsible-hide")
       IN /\ ctx' = push_str(ctx, <<"\n">> \o show_text \o <<"\n">>
                                \o (IF e.show_top THEN hide_text \o <<"\n">> ELSE <<>>))
          /\ r_todo' = ElementTasks(e.elements)
                          \o <<[op |-> "collapsible_close",
                                text |-> IF e.show_bottom THEN hide_text \o <<"\n">> ELSE <<>>]>>
                          \o Tail(r_todo)
    /\ UNCHANGED <<r_doc, r_site, r_run, r_first, notRender>>

\* Lines 168-171
CollapsibleClose ==
    /\ TopIs("collapsible_close")
    /\ ctx' = push_str(ctx, r_todo[1].text)
    /\ r_todo' = Tail(r_todo)
    /\ UNCHANGED <<r_doc, r_site, r_run, r_first, notRender>>

\* Line 173
RenderColor ==
    /\ TopElementIs({"Color"})
    /\ r_todo' = ElementTasks(r_todo[1].e.elements) \o Tail(r_todo)
    /\ UNCHANGED <<r_doc, r_site, ctx, r_run, r_first, notRender>>

\* Lines 186-191
RenderLineBreaks ==
    /\ TopElementIs({"LineBreak", "LineBreaks"})
    /\ ctx' = add_newlines(ctx, IF r_todo[1].e.tag = "LineBreak" THEN 1 ELSE r_todo[1].e.amount)
    /\ r_todo' = Tail(r_todo)
    /\ UNCHANGED <<r_doc, r_site, r_run, r_first, notRender>>

Divider == <<"-", "-", "-", "-", "-">>

\* A mutant of HorizontalRuleText: the newline is pushed in every case.
HorizontalRuleTextAlways(buffer) ==
    <<"\n">> \o <<"\n">> \o Divider \o <<"\n", "\n">>

\* Lines 192-200: what a horizontal rule appends to the buffer.
HorizontalRuleText(buffer) ==
    (IF buffer = <<>> \/ Last(buffer) = "\n" THEN <<>> ELSE <<"\n">>)
        \o <<"\n">> \o Divider \o <<"\n", "\n">>

RenderHorizontalRule ==
    /\ TopElementIs({"HorizontalRule"})
    /\ ctx' = push_str(ctx, HorizontalRuleText(ctx.buffer))
    /\ r_todo' = Tail(r_todo)
    /\ UNCHANGED <<r_doc, r_site, r_run, r_first, notRender>>

\* The tree is rendered a second time, with a fresh context of the same
\* configuration; the output of the first call is kept for comparison.
RenderAgain ==
    /\ r_todo = <<>>
    /\ r_run = 1
    /\ r_first' = ctx.buffer
    /\ ctx' = NewContext
    /\ r_todo' = ElementTasks(r_doc)
    /\ r_run' = 2
    /\ UNCHANGED <<r_doc, r_site, notRender>>

X == <<TextElement(<<"x">>)>>

BulletTree ==
    ListElement("Bullet",
        <<ItemElements(X),
          ItemSubList(ListElement("Bullet",
              <<ItemElements(X),
                ItemSubList(ListElement("Bullet", <<ItemElements(X)>>))>>)),
          ItemElements(X)>>)

NumberedTree ==
    ListElement("Numbered",
        <<ItemElements(X), ItemElements(X),
          ItemSubList(ListElement("Numbered", <<ItemElements(X), ItemElements(X)>>)),
          ItemElements(X)>>)

\* A list whose items hold containers with a prefix, and a blockquote that
\* holds a list.
MixedTree ==
    ListElement("Bullet",
        <<ItemElements(<<Container("Header2", X)>>),
          ItemSubList(ListElement("Numbered",
              <<ItemElements(<<Container("Blockquote", X)>>)>>))>>)

QuotedList ==
    Container("Blockquote",
        <<ListElement("Bullet", <<ItemSubList(ListElement("Bullet", <<ItemElements(X)>>))>>)>>)

\* The elements a tree is made of.
ElementPool ==
    {TextElement(<<"x">>), LineBreakElement, LineBreaks(2), HorizontalRule, Module,
     Container("Paragraph", X), Container("Div", <<HorizontalRule>>),
     Container("Blockquote", <<LineBreakElement, HorizontalRule, TextElement(<<"x">>)>>),
     Container("Header1", X), Container("Bold", X),
     BulletTree, NumberedTree, ListElement("Generic", <<ItemElements(X)>>),
     MixedTree, QuotedList,
     Link(<<"/", "p">>, <<"l">>), Link(<<"http://", "p">>, <<"l">>),
     Anchor(X, Some(<<"p">>)), Anchor(X, None),
     RadioButton(FALSE), CheckBox(TRUE),
     Collapsible(X, None, Some(<<"c">>), TRUE, TRUE),
     Collapsible(<<HorizontalRule>>, Some(<<"s">>), None, FALSE, FALSE),
     Color(<<HorizontalRule>>), Code(<<"c">>, Some(<<"r">>)), Code(<<"c">>, None),
     Html(<<"c">>), Iframe(<<"u">>)}

IdleRender ==
    /\ r_doc = <<>>
    /\ r_site = <<>>
    /\ ctx = NewContext
    /\ r_todo = <<>>
    /\ r_run = 0
    /\ r_first = <<>>

RenderStart ==
    /\ r_doc \in SeqsUpTo(ElementPool, MaxElements)
    /\ r_site \in {<<"s">>, <<"s", "/">>}
    /\ ctx = NewContext
    /\ r_todo = ElementTasks(r_doc)
    /\ r_run = 1
    /\ r_first = <<>>

\* ------------------------------------------------------------------------
\* ftml-http: the routes
\* ------------------------------------------------------------------------

MaxText == 2
MaxRequests == 2

\* A text is a sequence of segments: plain text, a carriage return, or an
\* include directive naming a page.
PlainText == [seg |-> "text"]

CarriageReturn == [seg |-> "cr"]

IncludeOf(page) == [seg |-> "include", page |-> page]

Pages == {"p"}

\* The texts sent to preprocess, tokenize, parse and render, where an
\* include directive is text like any other, and the texts sent to include.
Texts == SeqsUpTo({PlainText, CarriageReturn}, MaxText)

IncludeTexts == SeqsUpTo({PlainText} \cup {IncludeOf(pg) : pg \in Pages}, MaxText)

\* The missing-include template, with a placeholder for the page.
MissingTemplate == <<"no-page:", "%%page%%">>

\* ftml::preprocess: among other things, carriage returns are dropped.
Preprocess(text) == SelectSeq(text, LAMBDA sg : sg.seg # "cr")

\* ftml::tokenize, ftml::parse, HtmlRender::render: the outputs, by name.
Tokenize(text) == [tokens |-> text]

ParseTokens(tokenization) == [tree |-> tokenization.tokens, warnings |-> <<>>]

RenderHtmlOutcome(parsed) == [value |-> [html |-> parsed.tree], warnings |-> parsed.warnings]

\* Result<T, Error>
Ok(item) == [ok |-> TRUE, item |-> item]

Err(error) == [ok |-> FALSE, error |-> error]

\* HttpIncluder::new: fails on a callback URL that is no URL.
HttpIncluderNew(callback_url, template) ==
    IF callback_url = "not-a-url"
    THEN Err("invalid callback URL")
    ELSE Ok([callback_url |-> callback_url, template |-> template])

\* The template with the page reference filled in.
NoSuchInclude(template, page) ==
    [i \in 1..Len(template) |-> IF template[i] = "%%page%%" THEN page ELSE template[i]]

\* What replaces one segment of the text.
ExpandSegment(sg, includer, missing) ==
    IF sg.seg # "include" THEN <<sg.seg>>
    ELSE IF sg.page \in missing THEN NoSuchInclude(includer.template, sg.page)
    ELSE <<"content-of", sg.page>>

\* The pages referenced, each once, in the order of their first include.
RECURSIVE PageRefs(_, _)
PageRefs(text, seen) ==
    IF text = <<>> THEN <<>>
    ELSE IF text[1].seg = "include" /\ text[1].page \notin seen
    THEN <<text[1].page>> \o PageRefs(Tail(text), seen \cup {text[1].page})
    ELSE PageRefs(Tail(text), seen)

\* ftml::include with the includer: the pages are fetched from the callback;
\* a failed fetch is the includer's error, returned as Err (the Err arm of
\* lines 99-107, "Error fetching included pages or data"); a page the
\* callback does not have is replaced by the filled template.
FtmlInclude(text, includer, fetch, missing) ==
    IF fetch = "fail"
    THEN Err("fetch failed")
    ELSE Ok([output |-> [i \in 1..Len(text) |-> ExpandSegment(text[i], includer, missing)],
             pages |-> PageRefs(text, {})])

\* A mutant of Process: the error of the expansion is swallowed and the
\* text is returned as it came.
ProcessSwallowingError(input, fetch, missing) ==
    Ok([text |-> [i \in 1..Len(input.text) |-> <<input.text[i].seg>>], pages |-> <<>>])

\* Lines 72-109: process.
Process(input, fetch, missing) ==
    LET includer == HttpIncluderNew(input.callback_url, input.missing_include_template) IN
    IF ~includer.ok THEN Err(includer.error)
    ELSE LET included == FtmlInclude(input.text, includer.item, fetch, missing) IN
         IF included.ok
         THEN Ok([text |-> included.item.output, pages |-> included.item.pages])
         ELSE Err(included.error)

\* Lines 36-51: Response<T>, serialized with its tag in kebab-case.
ResponseFrom(result) ==
    IF result.ok
    THEN [tag |-> "result", value |-> result.item]
    ELSE [tag |-> "error", value |-> result.error]

\* A mutant of BareJson: the value is wrapped as a Response result.
BareJsonAsResponse(value) == [tag |-> "result", value |-> value]

\* Lines 151, 184, 223: warp::reply::json of the value itself, with no tag
\* around it.
BareJson(value) == [tag |-> "none", value |-> value]

\* Lines 115-118: the reply of the include route.
IncludeReply(input) == ResponseFrom(Process(input, h_fetch, h_missing))

\* Lines 144-148, 177-181, 212-216: the text, preprocessed on the regular
\* routes and as it is on the /only routes.
TextOf(input, preprocess) == IF preprocess THEN Preprocess(input.text) ELSE input.text

\* Lines 128-133: the reply of the preprocess route is the text itself.
PreprocReply(input) == BareJson(Preprocess(input.text))

\* Lines 150-152
TokenizeReply(input, preprocess) == BareJson(Tokenize(TextOf(input, preprocess)))

\* Lines 183-185
ParseReply(input, preprocess) ==
    BareJson(ParseTokens(Tokenize(TextOf(input, preprocess))))

\* Lines 218-224
RenderHtmlReply(input, preprocess) ==
    BareJson(RenderHtmlOutcome(ParseTokens(Tokenize(TextOf(input, preprocess)))))

NoExchange == [route |-> "none"]

Exchange(route, input, response) ==
    [route |-> route, input |-> input, response |-> response]

\* The first exchange is remembered.
Remember(exchange) == IF h_mem = NoExchange THEN exchange ELSE h_mem

TextInputs == {[text |-> t] : t \in Texts}

IncludeInputs ==
    {[text |-> t, callback_url |-> cb, missing_include_template |-> MissingTemplate] :
        t \in IncludeTexts, cb \in {"http://callback", "not-a-url"}}

\* POST /include (lines 111-118)
RouteInclude ==
    \E input \in IncludeInputs :
        /\ h_handled < MaxRequests
        /\ h_handled' = h_handled + 1
        /\ h_last' = Exchange("include", input, IncludeReply(input))
        /\ h_mem' = Remember(h_last')
        /\ UNCHANGED <<h_fetch, h_missing, notHttp>>

\* POST /preprocess (lines 124-134)
RoutePreproc ==
    \E input \in TextInputs :
        /\ h_handled < MaxRequests
        /\ h_handled' = h_handled + 1
        /\ h_last' = Exchange("preprocess", input, PreprocReply(input))
        /\ h_mem' = Remember(h_last')
        /\ UNCHANGED <<h_fetch, h_missing, notHttp>>

\* /tokenize and /tokenize/only (lines 156-167)
RouteTokenize ==
    \E input \in TextInputs, preprocess \in BOOLEAN :
        /\ h_handled < MaxRequests
        /\ h_handled' = h_handled + 1
        /\ h_last' = Exchange(IF preprocess THEN "tokenize" ELSE "tokenize/only", input,
                              TokenizeReply(input, preprocess))
        /\ h_mem' = Remember(h_last')
        /\ UNCHANGED <<h_fetch, h_missing, notHttp>>

\* /parse and /parse/only (lines 189-200)
RouteParse ==
    \E input \in TextInputs, preprocess \in BOOLEAN :
        /\ h_handled < MaxRequests
        /\ h_handled' = h_handled + 1
        /\ h_last' = Exchange(IF preprocess THEN "parse" ELSE "parse/only", input,
                              ParseReply(input, preprocess))
        /\ h_mem' = Remember(h_last')
        /\ UNCHANGED <<h_fetch, h_missing, notHttp>>

\* /render/html and /render/html/only (lines 228-239)
RouteRenderHtml ==
    \E input \in TextInputs, preprocess \in BOOLEAN :
        /\ h_handled < MaxRequests
        /\ h_handled' = h_handled + 1
        /\ h_last' = Exchange(IF preprocess THEN "render/html" ELSE "render/html/only",
                              input, RenderHtmlReply(input, preprocess))
        /\ h_mem' = Remember(h_last')
        /\ UNCHANGED <<h_fetch, h_missing, notHttp>>

IdleHttp ==
    /\ h_fetch = "ok"
    /\ h_missing = {}
    /\ h_handled = 0
    /\ h_mem = NoExchange
    /\ h_last = NoExchange

\* The callback's behaviour is the same for every request of a run.
HttpStart ==
    /\ h_fetch \in {"ok", "fail"}
    /\ h_missing \in SUBSET Pages
    /\ h_handled = 0
    /\ h_mem = NoExchange
    /\ h_last = NoExchange

\* ------------------------------------------------------------------------
\* deepwell: the rate-limit middleware (web/ratelimit.rs)
\* ------------------------------------------------------------------------

MaxTimes == 2
MaxSeen == 3

Addresses == {"a1", "a2"}

\* The value of X-Exempt-RateLimit that exempts a request (line 67).
ExemptionSecret == "ZZ_secret-here"

\* What a request carries under X-Exempt-RateLimit: no header, a header
\* without a value, or a header whose first value is given.
NoHeader == [present |-> FALSE, values |-> <<>>]

HeaderOf(values) == [present |-> TRUE, values |-> values]

Headers == {NoHeader, HeaderOf(<<>>), HeaderOf(<<"guess">>), HeaderOf(<<ExemptionSecret>>)}

\* Lines 64-71: the exemption test.
Exempt(header) ==
    /\ header.present
    /\ Len(header.values) > 0
    /\ header.values[1] = ExemptionSecret

\* The quota of the address of the request is used up in this minute.
LimitReached(ip) == rl_requests[ip] >= rl_times

NoRequest == [outcome |-> "none"]

\* Line 69: the request is passed to the next handler, whose response is
\* returned.
PassedOn(ip, header, limited) ==
    [outcome |-> "next", ip |-> ip, header |-> header, limited |-> limited,
     status |-> "Ok", retry_after |-> "none"]

\* Line 82: todo!() panics; no response is built.
Panicked(ip, header, limited) ==
    [outcome |-> "panic", ip |-> ip, header |-> header, limited |-> limited,
     status |-> "none", retry_after |-> "none"]

\* Lines 62-83: handle.
Handled(ip, header, limited) ==
    IF Exempt(header) THEN PassedOn(ip, header, limited) ELSE Panicked(ip, header, limited)

\* handle, on a request with the exemption (lines 64-70).
HandleExempt ==
    \E ip \in Addresses, header \in Headers :
        /\ Exempt(header)
        /\ rl_last' = Handled(ip, header, LimitReached(ip))
        /\ UNCHANGED <<rl_times, rl_requests, notRate>>

\* handle, on a request with a header that does not exempt it: the warning
\* of line 73, then lines 76-82.
HandleInvalidExemption ==
    \E ip \in Addresses, header \in Headers :
        /\ header.present
        /\ ~Exempt(header)
        /\ rl_requests[ip] < MaxSeen
        /\ rl_last' = Handled(ip, header, LimitReached(ip))
        /\ rl_requests' = [rl_requests EXCEPT ![ip] = @ + 1]
        /\ UNCHANGED <<rl_times, notRate>>

\* handle, on a request without the header: lines 76-82.
HandlePlain ==
    \E ip \in Addresses :
        /\ rl_requests[ip] < MaxSeen
        /\ rl_last' = Handled(ip, NoHeader, LimitReached(ip))
        /\ rl_requests' = [rl_requests EXCEPT ![ip] = @ + 1]
        /\ UNCHANGED <<rl_times, notRate>>

\* A minute has passed: the quota of every address is whole again.
MinutePasses ==
    /\ \E ip \in Addresses : rl_requests[ip] > 0
    /\ rl_requests' = [ip \in Addresses |-> 0]
    /\ UNCHANGED <<rl_times, rl_last, notRate>>

IdleRate ==
    /\ rl_times = 1
    /\ rl_requests = [ip \in Addresses |-> 0]
    /\ rl_last = NoRequest

\* Lines 51-57: per_minute(times), times a NonZeroU32.
RateStart ==
    /\ rl_times \in 1..MaxTimes
    /\ rl_requests = [ip \in Addresses |-> 0]
    /\ rl_last = NoRequest

\* ------------------------------------------------------------------------
\* deepwell: service errors and their HTTP status (services/error.rs)
\* ------------------------------------------------------------------------

\* sea_orm::DbErr, by variant, with its message.
DbErrKinds ==
    {"Conn", "Exec", "Query", "RecordNotFound", "Custom", "Type", "Json", "Migration"}

Messages == {"m1", "m2"}

DbErr(kind, message) == [type |-> "DbErr", kind |-> kind, message |-> message]

\* tide::Error, by its status.
StatusCodes ==
    {"BadRequest", "Unauthorized", "Forbidden", "NotFound", "MethodNotAllowed",
     "Conflict", "Gone", "PayloadTooLarge", "ImATeapot", "UnprocessableEntity",
     "TooManyRequests", "InternalServerError", "NotImplemented", "BadGateway",
     "ServiceUnavailable", "GatewayTimeout"}

TideError(status) == [type |-> "TideError", status |-> status]

\* Line 40: status as u16.
as_u16(status) ==
    CASE status = "Ok" -> 200
      [] status = "NoContent" -> 204
      [] status = "BadRequest" -> 400
      [] status = "Unauthorized" -> 401
      [] status = "Forbidden" -> 403
      [] status = "NotFound" -> 404
      [] status = "MethodNotAllowed" -> 405
      [] status = "Conflict" -> 409
      [] status = "Gone" -> 410
      [] status = "PayloadTooLarge" -> 413
      [] status = "ImATeapot" -> 418
      [] status = "UnprocessableEntity" -> 422
      [] status = "TooManyRequests" -> 429
      [] status = "InternalServerError" -> 500
      [] status = "NotImplemented" -> 501
      [] status = "BadGateway" -> 502
      [] status = "ServiceUnavailable" -> 503
      [] status = "GatewayTimeout" -> 504

\* Lines 35-47: enum Error.
Database(inner) == [type |-> "Error", kind |-> "Database", inner |-> inner]

Web(inner) == [type |-> "Error", kind |-> "Web", inner |-> inner]

Conflict == [type |-> "Error", kind |-> "Conflict"]

NotFound == [type |-> "Error", kind |-> "NotFound"]

\* A mutant of to_tide_error: every service error becomes a Conflict.
to_tide_error_conflict(error) == TideError("Conflict")

\* Lines 50-59: Error::to_tide_error.
to_tide_error(error) ==
    CASE error.kind = "Database" -> TideError("InternalServerError")
      [] error.kind = "Web" -> error.inner
      [] error.kind = "Conflict" -> TideError("Conflict")
      [] error.kind = "NotFound" -> TideError("NotFound")

\* A mutant of FromDbErr: every database error is wrapped as it is.
FromDbErrWrapped(error) == Database(error)

\* Lines 64-71: From<DbErr> for Error.
FromDbErr(error) ==
    IF error.kind = "RecordNotFound" THEN NotFound ELSE Database(error)

\* Lines 73-78: From<TideError> for Error.
FromTideError(error) == Web(error)

\* Lines 85-90: to_api.
to_api(result) == IF result.ok THEN result ELSE Err(to_tide_error(result.error))

\* What a service method meets: a value to return, an error of its own
\* making, or a failure of the database or of the web layer.
Raised ==
    {Ok("v1"), Ok("v2"), Err(Conflict), Err(NotFound)}
        \cup {Err(DbErr(k, m)) : k \in DbErrKinds, m \in Messages}
        \cup {Err(TideError(st)) : st \in StatusCodes}

NoResult == [none |-> TRUE]

\* The ? operator on a database failure: converted by From<DbErr>.
ConvertDbErr ==
    /\ e_pc = "raised"
    /\ ~e_raised.ok
    /\ e_raised.error.type = "DbErr"
    /\ e_result' = Err(FromDbErr(e_raised.error))
    /\ e_pc' = "returned"
    /\ UNCHANGED <<e_raised, e_response, notErr>>

\* The ? operator on a web failure: converted by From<TideError>.
ConvertTideError ==
    /\ e_pc = "raised"
    /\ ~e_raised.ok
    /\ e_raised.error.type = "TideError"
    /\ e_result' = Err(FromTideError(e_raised.error))
    /\ e_pc' = "returned"
    /\ UNCHANGED <<e_raised, e_response, notErr>>

\* The method returns its value or its own Error.
ReturnResult ==
    /\ e_pc = "raised"
    /\ IF e_raised.ok THEN TRUE ELSE e_raised.error.type = "Error"
    /\ e_result' = e_raised
    /\ e_pc' = "returned"
    /\ UNCHANGED <<e_raised, e_response, notErr>>

\* The route converts the Result of the transaction with to_api.
ToApi ==
    /\ e_pc = "returned"
    /\ e_response' = to_api(e_result)
    /\ e_pc' = "answered"
    /\ UNCHANGED <<e_raised, e_result, notErr>>

IdleErr ==
    /\ e_raised = NoResult
    /\ e_result = NoResult
    /\ e_response = NoResult
    /\ e_pc = "idle"

ErrStart ==
    /\ e_raised \in Raised
    /\ e_result = NoResult
    /\ e_response = NoResult
    /\ e_pc = "raised"

\* ------------------------------------------------------------------------
\* deepwell: FileService (services/file/service.rs)
\* ------------------------------------------------------------------------

MaxFiles == 3
MaxTxns == 2

\* The database transactions that can be open at a time.
Txns == 1..MaxTxns

\* A transaction that is not open.
NoTxn == [pc |-> "idle"]

FileNames == {"n1", "n2"}

FilePageIds == {1, 2}

FileData == {"d1", "d2"}

\* A row of the file table; deleted_at is null or set.
FileModel(name, page_id, deleted_at) ==
    [name |-> name, page_id |-> page_id, deleted_at |-> deleted_at]

\* Where a call of create can fail for a reason outside the service: the
\* lookup of check_conflicts, the upload of the blob, ctx.cuid(), the insert
\* of the row, the creation of the first revision.
CreateFailures == {"none", "lookup", "blob", "cuid", "insert", "revision"}

\* The failure of a query of the database, as the ? operator converts it.
QueryFailed == Err(FromDbErr(DbErr("Conn", "m1")))

\* The failure of a collaborator that is not the database.
CollaboratorFailed == Err(Web(TideError("InternalServerError")))

\* A mutant of check_conflicts: the filter on deleted_at is left out.
check_conflicts_any_row(rows, name, page_id, failure) ==
    IF failure = "lookup" THEN QueryFailed
    ELSE IF \E i \in 1..Len(rows) : rows[i].name = name /\ rows[i].page_id = page_id
    THEN Err(Conflict)
    ELSE Ok("unit")

\* Lines 199-229: check_conflicts.
check_conflicts(rows, name, page_id, failure) ==
    IF failure = "lookup" THEN QueryFailed
    ELSE IF \E i \in 1..Len(rows) :
                /\ rows[i].name = name
                /\ rows[i].page_id = page_id
                /\ rows[i].deleted_at = "null"
    THEN Err(Conflict)
    ELSE Ok("unit")

NoCall == [op |-> "none"]

Returned(op, arguments, result) ==
    [op |-> op, arguments |-> arguments, outcome |-> "returned", result |-> result]

\* A call that ended in todo!().
PanickedIn(op, arguments) ==
    [op |-> op, arguments |-> arguments, outcome |-> "panic", result |-> NoResult]

\* Lines 35-91: create. What the method did before a failure stays done
\* within its transaction.
FileCreate ==
    \E name \in FileNames, page_id \in FilePageIds, data \in FileData,
       failure \in CreateFailures :
        LET arguments == [name |-> name, page_id |-> page_id, data |-> data]
            checked == check_conflicts(files, name, page_id, failure)
            file_id == Len(files) + 1
        IN
        /\ Len(files) < MaxFiles
        /\ IF ~checked.ok
           THEN /\ f_last' = Returned("create", arguments, checked)
                /\ UNCHANGED <<files, blobs, file_revisions>>
           ELSE IF failure = "blob"
           THEN /\ f_last' = Returned("create", arguments, CollaboratorFailed)
                /\ UNCHANGED <<files, blobs, file_revisions>>
           ELSE IF failure \in {"cuid", "insert"}
           THEN /\ f_last' = Returned("create", arguments,
                                      IF failure = "cuid" THEN CollaboratorFailed
                                      ELSE QueryFailed)
                /\ blobs' = blobs \cup {data}
                /\ UNCHANGED <<files, file_revisions>>
           ELSE IF failure = "revision"
           THEN /\ f_last' = Returned("create", arguments, QueryFailed)
                /\ blobs' = blobs \cup {data}
                /\ files' = Append(files, FileModel(name, page_id, "null"))
                /\ UNCHANGED file_revisions
           ELSE /\ f_last' = Returned("create", arguments,
                                      Ok([file_id |-> file_id, revision_number |-> 0]))
                /\ blobs' = blobs \cup {data}
                /\ files' = Append(files, FileModel(name, page_id, "null"))
                /\ file_revisions' =
                      Append(file_revisions, [file_id |-> file_id, s3_hash |-> data])
        /\ UNCHANGED <<f_txn, notFile>>

\* Lines 151-157: get_optional is todo!().
get_optional(rows, file_id) == [panic |-> TRUE, found |-> FALSE]

\* Lines 171-175: exists, by get_optional.
exists(rows, file_id) == get_optional(rows, file_id)

FileIds == 1..MaxFiles

\* Lines 108-139: delete.
FileDelete ==
    \E file_id \in FileIds :
        LET arguments == [file_id |-> file_id]
            found == exists(files, file_id)
        IN
        /\ IF found.panic
           THEN /\ f_last' = PanickedIn("delete", arguments)
                /\ UNCHANGED files
           ELSE IF ~found.found
           THEN /\ f_last' = Returned("delete", arguments, Err(NotFound))
                /\ UNCHANGED files
           ELSE /\ files' = [files EXCEPT ![file_id].deleted_at = "set"]
                /\ f_last' = Returned("delete", arguments, Ok(files'[file_id]))
        /\ UNCHANGED <<blobs, file_revisions, f_txn, notFile>>

\* Lines 160-169: get.
FileGet ==
    \E file_id \in FileIds :
        LET arguments == [file_id |-> file_id]
            found == get_optional(files, file_id)
        IN
        /\ f_last' = IF found.panic THEN PanickedIn("get", arguments)
                     ELSE IF found.found THEN Returned("get", arguments, Ok(files[file_id]))
                     ELSE Returned("get", arguments, Err(NotFound))
        /\ UNCHANGED <<files, blobs, file_revisions, f_txn, notFile>>

\* ------------------------------------------------------------------------
\* deepwell: FileService::create in transactions that run interleaved
\* ------------------------------------------------------------------------

\* Every call of the service works in the transaction of its ServiceContext
\* (context.rs, ctx.transaction()). A query of a transaction sees the rows
\* that are committed and the rows the transaction wrote itself; rows written
\* by another transaction are seen once that one has committed. Nothing
\* under src/ declares a constraint of the table on (page_id, name).

OpenTxn(pc, name, page_id, pending) ==
    [pc |-> pc, name |-> name, page_id |-> page_id, pending |-> pending]

\* The rows written by open transactions and not yet committed.
PendingRows == Cardinality({t \in Txns : f_txn[t].pc = "inserted"})

\* Lines 35-52: create is entered in a transaction of its own.
TxnCreate ==
    \E t \in Txns, name \in FileNames, page_id \in FilePageIds :
        /\ f_txn[t].pc = "idle"
        /\ Len(files) + PendingRows < MaxFiles
        /\ f_txn' = [f_txn EXCEPT ![t] = OpenTxn("entered", name, page_id, <<>>)]
        /\ UNCHANGED <<files, blobs, file_revisions, f_last, notFile>>

\* Line 54: check_conflicts, on what the transaction sees. On an error
\* create returns it and the transaction is dropped.
TxnCheckConflicts ==
    \E t \in Txns, failure \in {"none", "lookup"} :
        /\ f_txn[t].pc = "entered"
        /\ LET checked == check_conflicts(files \o f_txn[t].pending,
                                          f_txn[t].name, f_txn[t].page_id, failure)
           IN IF checked.ok
              THEN /\ f_txn' = [f_txn EXCEPT ![t].pc = "checked"]
                   /\ UNCHANGED f_last
              ELSE /\ f_txn' = [f_txn EXCEPT ![t] = NoTxn]
                   /\ f_last' = Returned("create",
                                         [name |-> f_txn[t].name, page_id |-> f_txn[t].page_id],
                                         checked)
        /\ UNCHANGED <<files, blobs, file_revisions, notFile>>

\* Lines 56-90: the blob, the id, the insert of the row and the first
\* revision, all within the transaction; create returns Ok.
TxnInsert ==
    \E t \in Txns :
        /\ f_txn[t].pc = "checked"
        /\ f_txn' = [f_txn EXCEPT
                        ![t].pc = "inserted",
                        ![t].pending = <<FileModel(f_txn[t].name, f_txn[t].page_id, "null")>>]
        /\ UNCHANGED <<files, blobs, file_revisions, f_last, notFile>>

\* The caller commits the transaction: its rows are in the table.
TxnCommit ==
    \E t \in Txns :
        /\ f_txn[t].pc = "inserted"
        /\ files' = files \o f_txn[t].pending
        /\ file_revisions' =
              file_revisions \o <<[file_id |-> Len(files) + 1, s3_hash |-> "d1"]>>
        /\ blobs' = blobs \cup {"d1"}
        /\ f_last' = Returned("create",
                              [name |-> f_txn[t].name, page_id |-> f_txn[t].page_id],
                              Ok([file_id |-> Len(files) + 1, revision_number |-> 0]))
        /\ f_txn' = [f_txn EXCEPT ![t] = NoTxn]
        /\ UNCHANGED notFile

IdleFile ==
    /\ files = <<>>
    /\ blobs = {}
    /\ file_revisions = <<>>
    /\ f_last = NoCall
    /\ f_txn = [t \in Txns |-> NoTxn]

\* The table the service finds: empty, or with a file that is live or was
\* soft-deleted.
FileStart ==
    /\ files \in {<<>>,
                  <<FileModel("n1", 1, "null")>>,
                  <<FileModel("n1", 1, "set")>>}
    /\ blobs = IF files = <<>> THEN {} ELSE {"d1"}
    /\ file_revisions = [i \in 1..Len(files) |-> [file_id |-> i, s3_hash |-> "d1"]]
    /\ f_last = NoCall
    /\ f_txn = [t \in Txns |-> NoTxn]

\* ------------------------------------------------------------------------
\* deepwell: the life of a page, as test/page.rs exercises the page routes
\* ------------------------------------------------------------------------

MaxPages == 3
MaxRevisions == 7

Slugs == {"start", "xyz"}

PageIds == 1..MaxPages

\* The pages created so far have the ids 1..Len(pages).
Page(slug, deleted, revisions) ==
    [slug |-> slug, deleted |-> deleted, revisions |-> revisions]

\* The page table after Runner::setup: the seeded page "start".
SeededPages == <<Page("start", FALSE, <<"Create">>)>>

Created(id) == id \in 1..Len(pages)

\* The page exists and is not deleted.
Live(id) == Created(id) /\ ~pages[id].deleted

\* A mutant of LiveWithSlug: a deleted page still holds its slug.
AnyWithSlug(slug) == {id \in 1..Len(pages) : pages[id].slug = slug}

LiveWithSlug(slug) == {id \in 1..Len(pages) : ~pages[id].deleted /\ pages[id].slug = slug}

\* A page reference is an id or a slug; a slug refers to the live page that
\* has it.
ById(id) == [by |-> "id", id |-> id]

BySlug(slug) == [by |-> "slug", slug |-> slug]

References == {ById(id) : id \in PageIds} \cup {BySlug(slug) : slug \in Slugs}

\* The live page a reference stands for, or 0.
Resolve(reference) ==
    IF reference.by = "id"
    THEN IF Live(reference.id) THEN reference.id ELSE 0
    ELSE IF LiveWithSlug(reference.slug) = {} THEN 0
    ELSE CHOOSE id \in LiveWithSlug(reference.slug) : TRUE

\* A mutant of RevisionNumber: revisions are numbered from 1.
RevisionNumberFromOne(page) == Len(page.revisions)

\* The number of the revision added last.
RevisionNumber(page) == Len(page.revisions) - 1

\* The revisions in the revision table, of all pages.
RECURSIVE Revisions(_)
Revisions(table) ==
    IF table = <<>> THEN 0 ELSE Len(table[1].revisions) + Revisions(Tail(table))

WithRevision(page, type) == [page EXCEPT !.revisions = Append(@, type)]

NoPageRequest == [op |-> "none"]

Answer(op, target, status, revision_number) ==
    [op |-> op, target |-> target, status |-> status, revision_number |-> revision_number]

\* POST /page/{site}: a page is created unless a live page has the slug.
PageCreate ==
    \E slug \in Slugs :
        IF LiveWithSlug(slug) # {}
        THEN /\ p_last' = Answer("create", BySlug(slug), to_tide_error(Conflict).status, -1)
             /\ UNCHANGED <<pages, notPage>>
        ELSE /\ Len(pages) < MaxPages
             /\ Revisions(pages) < MaxRevisions
             /\ pages' = Append(pages, Page(slug, FALSE, <<"Create">>))
             /\ p_last' = Answer("create", BySlug(slug), "Ok", 0)
             /\ UNCHANGED notPage

\* POST /page/{site}/id/{id}: an edit of a live page adds a revision when
\* it changes something; there is no page to edit when it is deleted or was
\* never created.
PageEdit ==
    \E reference \in References, changes \in BOOLEAN :
        LET id == Resolve(reference) IN
        IF id = 0
        THEN /\ p_last' = Answer("edit", reference, to_tide_error(NotFound).status, -1)
             /\ UNCHANGED <<pages, notPage>>
        ELSE IF ~changes
        THEN /\ p_last' = Answer("edit", reference, "Ok", -1)
             /\ UNCHANGED <<pages, notPage>>
        ELSE /\ Revisions(pages) < MaxRevisions
             /\ pages' = [pages EXCEPT ![id] = WithRevision(@, "Update")]
             /\ p_last' = Answer("edit", reference, "Ok", RevisionNumber(pages'[id]))
             /\ UNCHANGED notPage

\* DELETE /page/{site}/id/{id}: a live page is marked deleted, with a
\* revision of its own.
PageDelete ==
    \E reference \in References :
        LET id == Resolve(reference) IN
        IF id = 0
        THEN /\ p_last' = Answer("delete", reference, to_tide_error(NotFound).status, -1)
             /\ UNCHANGED <<pages, notPage>>
        ELSE /\ Revisions(pages) < MaxRevisions
             /\ pages' = [pages EXCEPT
                             ![id] = [WithRevision(@, "Delete") EXCEPT !.deleted = TRUE]]
             /\ p_last' = Answer("delete", reference, "Ok", RevisionNumber(pages'[id]))
             /\ UNCHANGED notPage

\* POST /page/{site}/{id}/restore: a deleted page is live again, with a
\* revision of its own, unless a live page took its slug meanwhile.
PageRestore ==
    \E id \in PageIds :
        IF ~Created(id)
        THEN /\ p_last' = Answer("restore", ById(id), to_tide_error(NotFound).status, -1)
             /\ UNCHANGED <<pages, notPage>>
        ELSE IF ~pages[id].deleted \/ LiveWithSlug(pages[id].slug) # {}
        THEN /\ p_last' = Answer("restore", ById(id), to_tide_error(Conflict).status, -1)
             /\ UNCHANGED <<pages, notPage>>
        ELSE /\ Revisions(pages) < MaxRevisions
             /\ pages' = [pages EXCEPT
                             ![id] = [WithRevision(@, "Undelete") EXCEPT !.deleted = FALSE]]
             /\ p_last' = Answer("restore", ById(id), "Ok", RevisionNumber(pages'[id]))
             /\ UNCHANGED notPage

\* HEAD /page/{site}/...: the presence check.
HeadStatus(reference) ==
    IF Resolve(reference) # 0 THEN "NoContent" ELSE to_tide_error(NotFound).status

PageHead ==
    \E reference \in References :
        /\ p_last' = Answer("head", reference, HeadStatus(reference), -1)
        /\ UNCHANGED <<pages, notPage>>

IdlePage == pages = <<>> /\ p_last = NoPageRequest

PageStart == pages = SeededPages /\ p_last = NoPageRequest

\* ------------------------------------------------------------------------
\* The body-size limit of the HTTP routes (ftml-http/src/routes.rs)
\* ------------------------------------------------------------------------

\* Lengths are counted in KiB: the limit in bytes does not fit the integers
\* of the model checker, and every length of interest is a whole number of
\* KiB or within MaxSlack KiB of one.

\* Line 27: 4 * 1024 * 1024 * 1024 bytes.
CONTENT_LENGTH_LIMIT == 4 * 1024 * 1024

\* Line 27, the comment of the constant: 2 MiB.
DocumentedLimit == 2 * 1024

MaxSlack == 1

\* The Content-Length of a request: none, or a length (an Option, <<n>>) at
\* or next to one of the sizes of interest.
BodyLengths ==
    {None} \cup
    {<<m + d>> : m \in {1, 1024, DocumentedLimit, 3 * 1024, CONTENT_LENGTH_LIMIT},
             d \in (0 - MaxSlack)..MaxSlack}

\* warp::body::content_length_limit: a request without the header is
\* rejected, one longer than the limit is rejected, any other passes on to
\* the next filter of the route.
content_length_limit(limit, length) ==
    IF length = None THEN "LengthRequired"
    ELSE IF length[1] > limit THEN "PayloadTooLarge"
    ELSE "passed"

NoBody == [route |-> "none", length |-> None, limit |-> 0, outcome |-> "none"]

Filtered(route, length, limit) ==
    [route |-> route, length |-> length, limit |-> limit,
     outcome |-> content_length_limit(limit, length)]

\* Line 113
LimitInclude ==
    \E length \in BodyLengths :
        /\ b_last' = Filtered("include", length, CONTENT_LENGTH_LIMIT)
        /\ UNCHANGED notBody

\* Line 126
LimitPreprocess ==
    \E length \in BodyLengths :
        /\ b_last' = Filtered("preprocess", length, CONTENT_LENGTH_LIMIT)
        /\ UNCHANGED notBody

\* Line 158
LimitTokenize ==
    \E length \in BodyLengths :
        /\ b_last' = Filtered("tokenize", length, CONTENT_LENGTH_LIMIT)
        /\ UNCHANGED notBody

\* Line 163
LimitTokenizeOnly ==
    \E length \in BodyLengths :
        /\ b_last' = Filtered("tokenize/only", length, CONTENT_LENGTH_LIMIT)
        /\ UNCHANGED notBody

\* Line 191
LimitParse ==
    \E length \in BodyLengths :
        /\ b_last' = Filtered("parse", length, CONTENT_LENGTH_LIMIT)
        /\ UNCHANGED notBody

\* Line 196
LimitParseOnly ==
    \E length \in BodyLengths :
        /\ b_last' = Filtered("parse/only", length, CONTENT_LENGTH_LIMIT)
        /\ UNCHANGED notBody

\* Line 230
LimitRenderHtml ==
    \E length \in BodyLengths :
        /\ b_last' = Filtered("render/html", length, CONTENT_LENGTH_LIMIT)
        /\ UNCHANGED notBody

\* Line 235
LimitRenderHtmlOnly ==
    \E length \in BodyLengths :
        /\ b_last' = Filtered("render/html/only", length, CONTENT_LENGTH_LIMIT)
        /\ UNCHANGED notBody

IdleBody == b_last = NoBody

BodyStart == b_last = NoBody

\* ------------------------------------------------------------------------
\* Specifications
\* ------------------------------------------------------------------------

InitDepth == DepthStart /\ IdleList /\ IdleRender /\ IdleUrl /\ IdleHttp /\ IdleRate /\ IdlePage /\ IdleErr /\ IdleFile /\ IdleBody

NextDepth == DepthCall

SpecDepth == InitDepth /\ [][NextDepth]_vars

InitList == ListStart /\ IdleDepth /\ IdleRender /\ IdleUrl /\ IdleHttp /\ IdleRate /\ IdlePage /\ IdleErr /\ IdleFile /\ IdleBody

NextList ==
    \/ ListEnter
    \/ ListLine
    \/ ListBreak
    \/ ListError
    \/ ListFinish

SpecList == InitList /\ [][NextList]_vars

\* The rule entered on any token sequence of up to MaxRaw tokens, and on
\* the example document.
ListStartFair ==
    /\ tokens \in RawStreams \cup {DocExample}
    /\ entry \in EntryPositions(tokens)
    /\ pos = entry
    /\ bullet_token \in {"BulletItem", "NumberedItem"}
    /\ depths = <<>>
    /\ exceptions = <<>>
    /\ l_pc = "start"
    /\ l_result = [status |-> "None"]

InitListFair == ListStartFair /\ IdleDepth /\ IdleRender /\ IdleUrl /\ IdleHttp /\ IdleRate /\ IdlePage /\ IdleErr /\ IdleFile /\ IdleBody

\* parse_list is one sequential call: it runs until it returns.
SpecListFair == InitListFair /\ [][NextList]_vars /\ WF_vars(NextList)

InitUrl == UrlStart /\ IdleDepth /\ IdleList /\ IdleRender /\ IdleHttp /\ IdleRate /\ IdlePage /\ IdleErr /\ IdleFile /\ IdleBody

NextUrl == UrlCall

SpecUrl == InitUrl /\ [][NextUrl]_vars

InitRender == RenderStart /\ IdleDepth /\ IdleList /\ IdleUrl /\ IdleHttp /\ IdleRate /\ IdlePage /\ IdleErr /\ IdleFile /\ IdleBody

NextRender ==
    \/ RenderContainer
    \/ ContainerClose
    \/ RenderLeaf
    \/ RenderAnchor
    \/ AnchorClose
    \/ RenderList
    \/ RenderItemElements
    \/ RenderItemSubList
    \/ SubListClose
    \/ RenderCollapsible
    \/ CollapsibleClose
    \/ RenderColor
    \/ RenderLineBreaks
    \/ RenderHorizontalRule
    \/ RenderAgain

SpecRender == InitRender /\ [][NextRender]_vars

InitHttp == HttpStart /\ IdleDepth /\ IdleList /\ IdleRender /\ IdleUrl /\ IdleRate /\ IdlePage /\ IdleErr /\ IdleFile /\ IdleBody

NextHttp ==
    \/ RouteInclude
    \/ RoutePreproc
    \/ RouteTokenize
    \/ RouteParse
    \/ RouteRenderHtml

SpecHttp == InitHttp /\ [][NextHttp]_vars

InitRate ==
    RateStart /\ IdleDepth /\ IdleList /\ IdleRender /\ IdleUrl /\ IdleHttp /\ IdlePage /\ IdleErr /\ IdleFile /\ IdleBody

NextRate ==
    \/ HandleExempt
    \/ HandleInvalidExemption
    \/ HandlePlain
    \/ MinutePasses

SpecRate == InitRate /\ [][NextRate]_vars

InitPage ==
    PageStart /\ IdleDepth /\ IdleList /\ IdleRender /\ IdleUrl /\ IdleHttp /\ IdleRate /\ IdleErr /\ IdleFile /\ IdleBody

NextPage ==
    \/ PageCreate
    \/ PageEdit
    \/ PageDelete
    \/ PageRestore
    \/ PageHead

SpecPage == InitPage /\ [][NextPage]_vars

InitErr ==
    ErrStart /\ IdleDepth /\ IdleList /\ IdleRender /\ IdleUrl /\ IdleHttp /\ IdleRate /\ IdlePage /\ IdleFile /\ IdleBody

NextErr ==
    \/ ConvertDbErr
    \/ ConvertTideError
    \/ ReturnResult
    \/ ToApi

SpecErr == InitErr /\ [][NextErr]_vars

InitFile ==
    FileStart /\ IdleDepth /\ IdleList /\ IdleRender /\ IdleUrl /\ IdleHttp /\ IdleRate /\ IdlePage /\ IdleErr /\ IdleBody

NextFile ==
    \/ FileCreate
    \/ FileDelete
    \/ FileGet

SpecFile == InitFile /\ [][NextFile]_vars

\* The calls of the service by requests served at the same time.
NextFileTxn ==
    \/ TxnCreate
    \/ TxnCheckConflicts
    \/ TxnInsert
    \/ TxnCommit
    \/ FileDelete

SpecFileTxn == InitFile /\ [][NextFileTxn]_vars

InitBody ==
    BodyStart /\ IdleDepth /\ IdleList /\ IdleRender /\ IdleUrl /\ IdleHttp /\ IdleRate /\ IdlePage /\ IdleErr /\ IdleFile

NextBody ==
    \/ LimitInclude
    \/ LimitPreprocess
    \/ LimitTokenize
    \/ LimitTokenizeOnly
    \/ LimitParse
    \/ LimitParseOnly
    \/ LimitRenderHtml
    \/ LimitRenderHtmlOnly

SpecBody == InitBody /\ [][NextBody]_vars

\* ------------------------------------------------------------------------
\* Properties of the depth-list nesting
\* ------------------------------------------------------------------------

\* a[ b[ c ] ], d
NestedExample ==
    <<DItem("a"), DList(<<DItem("b"), DList(<<DItem("c")>>)>>), DItem("d")>>

\* C1: the nesting depends only on the relative order of the depths. Every
\* input nests exactly like the input whose depths are replaced by their
\* ranks (the canonical sequence that compares the same way pairwise), so
\* any two inputs that compare the same way nest alike; depths 0,2,4,0 and
\* 0,1,2,0 both give a[ b[ c ] ], d; and a jump from 0 to 4 opens one level.
C1_RelativeOrderOnly ==
    dl_pc = "done" =>
        /\ SameOrder(DepthsOf(dl_in), RankOf(DepthsOf(dl_in)))
        /\ dl_out = ProcessDepths(WithDepths(dl_in, RankOf(DepthsOf(dl_in))))
        /\ DepthsOf(dl_in) \in {<<0, 2, 4, 0>>, <<0, 1, 2, 0>>} => dl_out = NestedExample
        /\ DepthsOf(dl_in) = <<0, 4>> => dl_out = <<DItem("a"), DList(<<DItem("b")>>)>>

C1_Witness ==
    /\ dl_pc = "done"
    /\ DepthsOf(dl_in) = <<0, 2, 4, 0>>
    /\ dl_out = NestedExample

\* ------------------------------------------------------------------------
\* Properties of the list rule
\* ------------------------------------------------------------------------

Elements(c) == ItemElements(<<TextElement(<<c>>)>>)

\* List(Bullet, [Elements(a), Elements(b), SubList(List(Bullet, [Elements(c)])), Elements(d)])
DocExampleList ==
    ListElement("Bullet",
        <<Elements("a"), Elements("b"),
          ItemSubList(ListElement("Bullet", <<Elements("c")>>)),
          Elements("d")>>)

\* The list types of a List element and of every sub-list below it.
RECURSIVE ListTypesIn(_)
ListTypesIn(list) ==
    {list.ltype} \cup
    UNION {ListTypesIn(list.items[i].list) :
              i \in {j \in 1..Len(list.items) : list.items[j].kind = "SubList"}}

\* C2: the bullet rule on the tokens of "* a\n* b\n  * c\n* d" gives
\* List(Bullet, [Elements(a), Elements(b), SubList(List(Bullet, [Elements(c)])),
\* Elements(d)]) from the buffer (0,a), (0,b), (2,c), (0,d); and on every
\* stream the List is the nesting of the buffer, every sub-list having the
\* list type of the rule.
C2_BulletListExample ==
    l_pc = "done" =>
        /\ (tokens = DocExample /\ entry = 1 /\ bullet_token = "BulletItem") =>
              /\ l_result = ResultOk(DocExampleList, <<>>)
              /\ depths = <<<<0, <<TextElement(<<"a">>)>>>>, <<0, <<TextElement(<<"b">>)>>>>,
                            <<2, <<TextElement(<<"c">>)>>>>, <<0, <<TextElement(<<"d">>)>>>>>>
        /\ l_result.status = "Ok" =>
              /\ l_result.element = build_list_element(ProcessDepths(depths),
                                                       get_list_type(bullet_token))
              /\ ListTypesIn(l_result.element) = {get_list_type(bullet_token)}

C2_Witness ==
    /\ l_pc = "done"
    /\ tokens = DocExample
    /\ entry = 1
    /\ bullet_token = "BulletItem"
    /\ l_result.status = "Ok"
    /\ Len(l_result.element.items) = 4

\* C3: a run of the rule that ends with an empty buffer returns the warning
\* RuleFailed as an error and no element; and no run ends in a panic or in
\* an error of another kind.
C3_EmptyBufferRuleFailed ==
    l_pc = "done" =>
        /\ l_result.status \in {"Ok", "Err"}
        /\ l_result.status = "Err" => l_result.warning.kind = "RuleFailed"
        /\ depths = <<>> => l_result.status = "Err"

\* "*a": the marker on the first line with no whitespace after it.
C3_Witness ==
    /\ l_pc = "done"
    /\ depths = <<>>
    /\ Len(tokens) >= 3
    /\ entry = 1
    /\ tokens[2].token = bullet_token
    /\ tokens[3].token = "Identifier"
    /\ l_result = ResultErr("RuleFailed", 3)

\* ------------------------------------------------------------------------
\* Properties of the text renderer
\* ------------------------------------------------------------------------

RECURSIVE TrailingNewlines(_)
TrailingNewlines(buffer) ==
    IF buffer # <<>> /\ Last(buffer) = "\n"
    THEN 1 + TrailingNewlines(Front(buffer))
    ELSE 0

\* Where a divider line starts in the buffer (no text of the pool has a dash).
DividerStarts(buffer) ==
    {i \in 1..(Len(buffer) - 4) :
        /\ SubSeq(buffer, i, i + 4) = Divider
        /\ i = 1 \/ buffer[i - 1] # "-"}

NewlinesBefore(buffer, i) == TrailingNewlines(SubSeq(buffer, 1, i - 1))

WithoutTrailingSlash(str) == IF EndsWith(str, "/") THEN Front(str) ELSE str

WithoutLeadingSlash(str) == IF StartsWith(str, "/") THEN Tail(str) ELSE str

\* C5: an absolute URL is returned unchanged; a relative URL is joined to
\* the site URL with one slash between the site URL less its trailing slash
\* and the path less its leading slash, so that the four combinations of a
\* trailing slash and a leading slash (on a base that ends in no slash and
\* a relative path that starts with none) give the same result.
C5_SingleSlashJoin ==
    u_pc = "done" =>
        IF is_url(u_url)
        THEN u_out = u_url
        ELSE LET base == WithoutTrailingSlash(u_site)
                 path == WithoutLeadingSlash(u_url)
             IN /\ u_out = base \o <<"/">> \o path
                /\ (~EndsWith(base, "/") /\ ~StartsWith(path, "/") /\ ~is_url(path)) =>
                      \A s \in {base, base \o <<"/">>}, u \in {path, <<"/">> \o path} :
                          get_full_url(s, u) = u_out

C5_Witness ==
    /\ u_pc = "done"
    /\ u_site = <<"s", "/">>
    /\ u_url = <<"/", "p">>
    /\ u_out = <<"s", "/", "p">>

\* ------------------------------------------------------------------------
\* Properties of the ftml-http routes
\* ------------------------------------------------------------------------

HasInclude(text) == \E i \in 1..Len(text) : text[i].seg = "include"

\* The fetch of the directive at segment i fails: the callback cannot be
\* reached, or it does not have the page.
FetchFails(text, i) ==
    text[i].seg = "include" /\ (h_fetch = "fail" \/ text[i].page \in h_missing)

TransportRoutes ==
    {"include", "tokenize", "tokenize/only", "parse", "parse/only", "render/html",
     "render/html/only"}

\* The first and the last exchange agree when they are the same request.
SameRequestSameAnswer ==
    (h_mem # NoExchange /\ h_mem.route = h_last.route /\ h_mem.input = h_last.input) =>
        h_mem.response = h_last.response

C9_LimitedRequestsGet429 ==
    (rl_last # NoRequest /\ rl_last.limited /\ ~Exempt(rl_last.header)) =>
        /\ rl_last.outcome = "reply"
        /\ rl_last.status = "TooManyRequests"
        /\ rl_last.retry_after # "none"

\* ------------------------------------------------------------------------
\* Properties of the page lifecycle
\* ------------------------------------------------------------------------

\* The last revision of a page that is not an edit.
RECURSIVE LastLifecycle(_)
LastLifecycle(revisions) ==
    IF Last(revisions) # "Update" THEN Last(revisions) ELSE LastLifecycle(Front(revisions))

\* By its history the page exists and is not deleted: it was created, and
\* restored after every deletion.
ExistsUndeleted(id) ==
    id \in 1..Len(pages) /\ LastLifecycle(pages[id].revisions) \in {"Create", "Undelete"}

Visible(reference) ==
    IF reference.by = "id" THEN ExistsUndeleted(reference.id)
    ELSE \E id \in 1..Len(pages) : pages[id].slug = reference.slug /\ ExistsUndeleted(id)

RevisionCount(table) == [id \in 1..Len(table) |-> Len(table[id].revisions)]

\* C10: a presence check answers NoContent exactly when the page exists and
\* is not deleted, so NotFound after a delete, NoContent again after a
\* restore, and NotFound for a slug that was never created; an edit of a
\* page that is deleted or does not exist fails with NotFound and creates no
\* revision, and an edit of a visible page succeeds, a revision it creates
\* being the only change.
C10_VisibleWhileNotDeleted ==
    [][/\ p_last'.op = "head" =>
             p_last'.status = IF Visible(p_last'.target) THEN "NoContent" ELSE "NotFound"
       /\ p_last'.op = "edit" =>
             IF Visible(p_last'.target)
             THEN /\ p_last'.status = "Ok"
                  /\ Len(pages') = Len(pages)
                  /\ \A id \in 1..Len(pages) :
                        /\ pages'[id].deleted = pages[id].deleted
                        /\ pages'[id].slug = pages[id].slug
                        /\ Len(pages'[id].revisions) \in
                              {Len(pages[id].revisions), Len(pages[id].revisions) + 1}
                        /\ Len(pages'[id].revisions) > Len(pages[id].revisions) =>
                              p_last'.revision_number = Len(pages[id].revisions)
             ELSE /\ p_last'.status = "NotFound"
                  /\ pages' = pages]_vars

\* The lifecycle of the test: a page created, edited, deleted, restored and
\* edited again, the last edit answered Ok with revision 4.
C10_Witness ==
    /\ Len(pages) = 2
    /\ pages[2].revisions = <<"Create", "Update", "Delete", "Undelete", "Update">>
    /\ p_last = Answer("edit", ById(2), "Ok", 4)

\* The pages of the table that a step changed.
ChangedPages == {id \in 1..Len(pages) : pages'[id] # pages[id]}

DeletedWithSlug(slug) == {id \in 1..Len(pages) : pages[id].slug = slug /\ pages[id].deleted}

\* C12: a create at a slug whose pages are all deleted succeeds with Ok and
\* makes a new page with a history of its own (the creation alone), leaving
\* the deleted pages as they are; deleting that page is its revision 1.
C12_SlugFreeAfterDelete ==
    [][/\ (p_last'.op = "create"
           /\ \A id \in 1..Len(pages) :
                 pages[id].slug = p_last'.target.slug => pages[id].deleted) =>
             /\ p_last'.status = "Ok"
             /\ p_last'.revision_number = 0
             /\ pages' = Append(pages, Page(p_last'.target.slug, FALSE, <<"Create">>))
       /\ (p_last'.op = "delete" /\ p_last'.status = "Ok"
           /\ \E id \in ChangedPages : pages[id].revisions = <<"Create">>) =>
             p_last'.revision_number = 1]_vars

\* Two rounds on one slug: the seeded page deleted, a page created at its
\* slug and deleted in turn as its revision 1.
C12_Witness ==
    /\ Len(pages) = 2
    /\ DeletedWithSlug("start") = {1, 2}
    /\ pages[2].revisions = <<"Create", "Delete">>
    /\ p_last = Answer("delete", ById(2), "Ok", 1)

\* ------------------------------------------------------------------------
\* Properties of the service errors
\* ------------------------------------------------------------------------

\* C15: the response to a failed service method carries the status of its
\* error: 409 for Conflict, 404 for NotFound, 500 for a database error, the
\* web error's own status for a web error; a database error of kind
\* RecordNotFound is answered 404; a value is passed on as it is.
C15_ErrorsToStatus ==
    e_pc = "answered" =>
        IF e_raised.ok THEN e_response = e_raised
        ELSE /\ ~e_response.ok
             /\ e_response.error.type = "TideError"
             /\ LET raised == e_raised.error
                    status == as_u16(e_response.error.status)
                IN CASE raised.type = "Error" ->
                           status = IF raised.kind = "Conflict" THEN 409 ELSE 404
                     [] raised.type = "DbErr" ->
                           status = IF raised.kind = "RecordNotFound" THEN 404 ELSE 500
                     [] raised.type = "TideError" -> e_response.error = raised

\* A record-not-found failure of the database answered with 404.
C15_Witness ==
    /\ e_pc = "answered"
    /\ e_raised = Err(DbErr("RecordNotFound", "m1"))
    /\ e_result = Err(NotFound)
    /\ as_u16(e_response.error.status) = 404

\* ------------------------------------------------------------------------
\* Properties of FileService
\* ------------------------------------------------------------------------

\* A file of that name on that page exists and is not soft-deleted.
LiveFileNamed(name, page_id) ==
    \E i \in 1..Len(files) :
        /\ files[i].name = name
        /\ files[i].page_id = page_id
        /\ files[i].deleted_at # "set"

C14_SoftDelete ==
    f_last.op = "delete" =>
        /\ f_last.outcome = "returned"
        /\ IF f_last.arguments.file_id \in 1..Len(files)
           THEN /\ f_last.result.ok
                /\ files[f_last.arguments.file_id].deleted_at = "set"
                /\ f_last.result.item = files[f_last.arguments.file_id]
           ELSE f_last.result = Err(NotFound)

\* ------------------------------------------------------------------------
\* Properties of the list rule: cursor, paragraph breaks and warnings
\* ------------------------------------------------------------------------

\* The cursor is at the first token of a line: right after the start of the
\* input or a line break.
AtLineStart(p) == p > 1 /\ tokens[p - 1].token \in {"InputStart", "LineBreak"}

\* C16: when the loop is left on a line that does not match, the cursor is
\* at the first token of that line: neither its whitespace nor its marker
\* has been stepped over.
C16_CursorAtLineStart == l_pc = "after" => AtLineStart(pos)

\* C17: when the collection of a line is cut short by a paragraph break
\* after items were appended, the rule returns the List built from those
\* items with the warnings gathered so far.
C17_ItemsSurviveParagraphBreak ==
    (l_pc = "done" /\ depths # <<>> /\ tokens[pos].token = "ParagraphBreak") =>
        /\ l_result.status = "Ok"
        /\ l_result.element =
              build_list_element(ProcessDepths(depths), get_list_type(bullet_token))
        /\ l_result.exceptions = exceptions

\* The warnings of the failing constructs among the tokens from..to, in the
\* order of the tokens.
RECURSIVE WarningsBetween(_, _)
WarningsBetween(from, to) ==
    IF from > to THEN <<>>
    ELSE (IF tokens[from].token = "LeftBlock"
          THEN <<ParseWarning("RuleFailed", from)>>
          ELSE <<>>) \o WarningsBetween(from + 1, to)

\* C18: the warnings gathered are, at every point of the loop and in the
\* result returned with the List, exactly the warnings of the tokens
\* consumed, each once and in their order; a line whose content raised
\* warnings is appended like any other, and the rule fails only on an empty
\* buffer, a paragraph break or the end of the input.
C18_WarningsAllReturned ==
    /\ l_pc \in {"loop", "after"} => exceptions = WarningsBetween(entry + 1, pos - 1)
    /\ (l_pc = "done" /\ l_result.status = "Ok") =>
          /\ l_result.exceptions = WarningsBetween(entry + 1, pos - 1)
          /\ depths # <<>>
    /\ (l_pc = "done" /\ l_result.status = "Err") =>
          \/ depths = <<>>
          \/ tokens[pos].token = "ParagraphBreak"
          \/ l_result.warning.kind = "EndOfInput"

\* A List returned with the warnings of two of its lines.
C18_Witness ==
    /\ l_pc = "done"
    /\ l_result.status = "Ok"
    /\ Len(depths) = 3
    /\ Len(l_result.exceptions) = 2
    /\ l_result.exceptions[1].at < l_result.exceptions[2].at

\* ------------------------------------------------------------------------
\* Properties of the renderer: scoped state
\* ------------------------------------------------------------------------

\* The prefixes of the containers that are open, outermost first: a
\* container closes before the ones around it, so its closing step comes
\* earlier among the steps still to do.
RECURSIVE OpenPrefixes(_)
OpenPrefixes(todo) ==
    IF todo = <<>> THEN <<>>
    ELSE OpenPrefixes(Tail(todo))
            \o (IF todo[1].op = "container_close" /\ todo[1].prefix # None
                THEN <<todo[1].prefix[1]>>
                ELSE <<>>)

\* The number of sub-lists that are open.
OpenSubLists(todo) == Cardinality({i \in 1..Len(todo) : todo[i].op = "sublist_close"})

\* C19: at every point of a rendering the depth counter is the number of
\* sub-lists being rendered (so the nesting level of the item at hand) and
\* the prefix stack holds the prefixes of the containers being rendered and
\* no other; hence when an element has been rendered, and when the whole
\* tree has, both are what they were before.
C19_ScopedStateRestored ==
    /\ ctx.list_depth = OpenSubLists(r_todo)
    /\ Len(ctx.list_index) = ctx.list_depth + 1
    /\ ctx.prefixes = OpenPrefixes(r_todo)
    /\ r_todo = <<>> => ctx.list_depth = 0 /\ ctx.prefixes = <<>>

\* A tree with a header in an item and a blockquote in an item of a
\* sub-list, rendered to its end.
C19_Witness ==
    /\ r_doc = <<MixedTree, QuotedList>>
    /\ r_todo = <<>>
    /\ r_run = 1
    /\ ctx.buffer # <<>>
    /\ ctx.list_depth = 0
    /\ ctx.prefixes = <<>>

\* ------------------------------------------------------------------------
\* Properties of the body-size limit
\* ------------------------------------------------------------------------

\* C20: every route that takes a body enforces the limit of 2 MiB: a
\* request that states its length is rejected as too large exactly when
\* its body is longer than 2 * 1024 KiB, and the limit is the same on all
\* of the routes.
C20_LimitIsTwoMiB ==
    b_last # NoBody =>
        /\ b_last.limit = DocumentedLimit
        /\ b_last.length # None =>
              (b_last.outcome = "PayloadTooLarge" <=> b_last.length[1] > DocumentedLimit)

\* The half of it that the routes do have: one limit on all of them, and
\* it decides the outcome.
SameLimitOnEveryRoute ==
    b_last # NoBody =>
        /\ b_last.limit = CONTENT_LENGTH_LIMIT
        /\ b_last.outcome = content_length_limit(CONTENT_LENGTH_LIMIT, b_last.length)

\* ------------------------------------------------------------------------
\* Properties of the rate-limit middleware: the exemption
\* ------------------------------------------------------------------------

\* C21: a request whose first X-Exempt-RateLimit value is the secret is
\* passed to the next handler, whatever the state of the limiter; a request
\* with the header but another value, or none, is not exempt and gets what
\* the rate-limit check gives any request: the next handler while the quota
\* of its address lasts, the 429 reply once it is used up.
C21_ExemptionOnlyBySecret ==
    rl_last # NoRequest =>
        /\ Exempt(rl_last.header) => rl_last.outcome = "next"
        /\ (rl_last.header.present /\ ~Exempt(rl_last.header)) =>
              rl_last.outcome = (IF rl_last.limited THEN "reply" ELSE "next")

\* The half of it that handle does have: the exempt request is passed on
\* with the quota used up as well as not, and no quota is consumed by it;
\* no other request is passed on as exempt.
ExemptAlwaysPassed ==
    [][rl_last' # rl_last =>
          /\ Exempt(rl_last'.header) =>
                rl_last'.outcome = "next" /\ rl_requests' = rl_requests
          /\ ~Exempt(rl_last'.header) => rl_last'.outcome # "next"]_vars

\* An exempt request was passed on although the quota of its address was
\* used up.
ExemptPassedWhileLimited ==
    /\ rl_last # NoRequest
    /\ Exempt(rl_last.header)
    /\ rl_last.limited
    /\ rl_last.outcome = "next"

\* ------------------------------------------------------------------------
\* Properties of the list rule: termination
\* ------------------------------------------------------------------------

\* C22: the list rule returns on every token stream; its cursor never moves
\* backward; an iteration that appends a line moves the cursor by two
\* tokens or more, the marker and the whitespace after it, so the lines
\* appended are at most half the tokens passed.
C22_ListRuleTerminates ==
    /\ <>(l_pc = "done")
    /\ [][/\ pos' >= pos
          /\ ListLine => pos' >= pos + 2
          /\ l_pc' # "idle" => 2 * Len(depths') <= pos' - entry']_vars

\* The rule has returned a list of three lines or more with the cursor
\* at the end of the input.
C22_Witness ==
    /\ l_pc = "done"
    /\ l_result.status = "Ok"
    /\ Len(depths) >= 3
    /\ pos = Len(tokens)
    /\ entry = 1

\* ------------------------------------------------------------------------
\* Properties of FileService: one live file for a name
\* ------------------------------------------------------------------------

\* C23: whatever calls of create and delete have run, interleaved or not,
\* no two files of the table that are not soft-deleted have the same page
\* and the same name.
C23_AtMostOneLiveFile ==
    \A i, j \in 1..Len(files) :
        (/\ i # j
         /\ files[i].deleted_at = "null"
         /\ files[j].deleted_at = "null"
         /\ files[i].page_id = files[j].page_id)
            => files[i].name # files[j].name

====
